---- MODULE Spec2Model ----
(***************************************************************************)
(* Model of FuXLogger's dispatch engine, src/FuXLogger/core/logger.py:     *)
(* class Logger with its three dispatch modes (synchronous, thread-backed  *)
(* queue, event-loop-backed queue), its handler list and its lifecycle.    *)
(***************************************************************************)
EXTENDS Integers, Sequences, FiniteSets, TLC

\* ------------------------------------------------------------------ bounds
MaxCalls == 2        \* log calls made in one behaviour
MaxHandlers == 2     \* longest handler list
MaxTasks == 2        \* background tasks created in one behaviour
MaxEdits == 1        \* changes made by addHandler/removeHandler/setLevelThreshold in one behaviour

\* ---------------------------------------------------------------- universe
Handlers == {"h1", "h2", "h3"}           \* Handler objects
Callers == {"main", "t1"}                \* the main thread and one other thread
HName(h) == IF h = "h2" THEN "n2" ELSE "n1"      \* Handler.name: h1 and h3 share theirs
Names == {"n1", "n2", "nx"}              \* "nx" names no handler
Indexes == (0 - 1) .. MaxHandlers        \* Python list indexes tried

\* The handler lists a Logger is constructed with; addHandler and removeHandler
\* reach the others.
InitLists ==
  {[k \in 1..n |-> IF k = 1 THEN "h1" ELSE "h2"] : n \in 0..MaxHandlers}
    \cup {<<"h3", "h1">>}

NoRec == [call |-> 0, rid |-> 0]

\* LogLevel objects: a symbolic name and a severity.
LevelINFO == [name |-> "INFO", level |-> 20]
LevelWARN == [name |-> "WARN", level |-> 30]

\* The new_threshold arguments tried: a LogLevel object, a raw number.
Thresholds == {[kind |-> "LogLevel", lv |-> LevelWARN], [kind |-> "number", n |-> 35]}

VARIABLES
  phase,          \* "new" (before __init__: enqueue, is_async and handlers hold its
                  \* arguments), "ready", "failed" (__init__ raised)
  loop,           \* event loop of the constructing thread:
                  \* "none", "running", "stopped", "ruc" (inside run_until_complete), "closed"
  enqueue,        \* self.enqueue
  is_async,       \* self.is_async
  handlers,       \* self.handlers
  handlers_num,   \* self.handlers_num
  level,          \* Handler.level (the threshold) of every Handler object
  hasQueue,       \* self.queue exists
  queue,          \* self.queue (LogQueue) contents
  hasAsyncQueue,  \* self.async_queue exists
  async_queue,    \* self.async_queue contents
  w_pc,           \* self.log_thread: "none", "get", "check", "dispatch", "handling"
                  \* (inside handler.handle), "exited", "crashed"
  w_rec,          \* the worker's local `record`
  w_idx,          \* position of the worker's list iterator in self.handlers
  tasks,          \* every task created by loop.create_task, in creation order
  log_task,       \* self.log_task: index into tasks, 0 for None / unset
  mainAlive,      \* threading.main_thread().is_alive()
  c_pc,           \* per caller: "idle", "logging", "closing", "ruc", "exited"
  c_idx,          \* per caller: position of the list iterator of a synchronous log
  c_call,         \* per caller: id of the log call in progress
  c_task,         \* per caller: the task passed to run_until_complete
  c_mark,         \* per caller: records accepted when its close() was called
  ncall,          \* log calls made so far
  nrec,           \* LogRecords built so far
  nedit,          \* changes made by addHandler/removeHandler/setLevelThreshold
  accepted,       \* records enqueued by log calls that returned normally, in order
  delivered,      \* every handler.handle invocation, in order
  result,         \* outcome of the API call that returned last: "ok", the exception it
                  \* raised, or "pending" while close/stop_async_logging is blocked
  closedMark      \* -1, or the largest c_mark of a close() that has returned

vars == <<phase, loop, enqueue, is_async, level, handlers, handlers_num, hasQueue, queue,
          hasAsyncQueue, async_queue, w_pc, w_rec, w_idx, tasks, log_task,
          mainAlive, c_pc, c_idx, c_call, c_task, c_mark, ncall, nrec, nedit, accepted,
          delivered, result, closedMark>>

hist == <<accepted, delivered, closedMark>>
thread == <<w_pc, w_rec, w_idx>>
callerLocals == <<c_idx, c_call, c_task, c_mark>>

Max(a, b) == IF a >= b THEN a ELSE b
Range(f) == {f[i] : i \in DOMAIN f}

\* Mutant: the count is the number of distinct handlers.
CachedCountMut(hs) == Cardinality(Range(hs))

\* self.handlers_num = len(self.handlers), the last statement of __init__'s handler
\* set-up, of addHandler, of removeHandler and of setLevelThreshold.
CachedCount(hs) == Len(hs)

\* ------------------------------------------------------------ construction
\* Logger.__init__: which branch raises.
CtorError(enq, asy, lp) ==
  IF enq /\ asy THEN "InvalidConfigurationException"
  ELSE IF ~enq /\ asy /\ lp # "running" THEN "InvalidEnvironmentException"
  ELSE "none"

\* Mutant: the thread is started before the conflicting-flags check.
StartsThreadMut(enq, asy) == enq

\* Logger.__init__: the worker thread is created and started only under `if enqueue`,
\* which is reached after the conflicting-flags check.
StartsThread(enq, asy) == enq /\ ~asy

NewTask == [pc |-> "new", cancel |-> FALSE, rec |-> NoRec, idx |-> 0]

\* Mutant: the task is created without asking for the running loop first.
StartsTaskMut(enq, asy, lp) == ~enq /\ asy

\* Logger.start_async_logging as called from __init__ (is_async is already set):
\* reached only if asyncio.get_running_loop() did not raise.
StartsTask(enq, asy, lp) == ~enq /\ asy /\ lp = "running"

\* Every list of at most MaxHandlers handlers.
HandlerLists == UNION {[1..n -> Handlers] : n \in 0..MaxHandlers}

\* Before Logger(...) is called with a handler list of `lists`, on a thread whose
\* event loop is in one of the states `loops`.
InitWith(lists, loops) ==
  /\ phase = "new"
  /\ loop \in loops
  /\ enqueue \in BOOLEAN /\ is_async \in BOOLEAN
  /\ handlers \in lists /\ handlers_num = 0
  /\ level = [h \in Handlers |-> LevelINFO]
  /\ hasQueue = FALSE /\ queue = <<>>
  /\ hasAsyncQueue = FALSE /\ async_queue = <<>>
  /\ w_pc = "none" /\ w_rec = NoRec /\ w_idx = 0
  /\ tasks = <<>> /\ log_task = 0
  /\ mainAlive = TRUE
  /\ c_pc = [c \in Callers |-> "idle"]
  /\ c_idx = [c \in Callers |-> 0]
  /\ c_call = [c \in Callers |-> 0]
  /\ c_task = [c \in Callers |-> 0]
  /\ c_mark = [c \in Callers |-> 0]
  /\ ncall = 0 /\ nrec = 0 /\ nedit = 0
  /\ accepted = <<>> /\ delivered = <<>>
  /\ result = "none"
  /\ closedMark = 0 - 1

Init == InitWith(InitLists, {"none", "running"})

\* Logger.__init__: asyncio.Queue() is the first statement of the is_async branch.
MakesAsyncQueue(enq, asy) == ~enq /\ asy

\* Logger.__init__(name, handlers, enqueue, is_async), called on the main thread.
Construct ==
  /\ phase = "new"
  /\ handlers_num' = CachedCount(handlers)
  /\ LET err == CtorError(enqueue, is_async, loop) IN
       /\ phase' = IF err = "none" THEN "ready" ELSE "failed"
       /\ result' = IF err = "none" THEN "ok" ELSE err
  /\ hasQueue' = StartsThread(enqueue, is_async)
  /\ w_pc' = IF StartsThread(enqueue, is_async) THEN "get" ELSE "none"
  /\ hasAsyncQueue' = MakesAsyncQueue(enqueue, is_async)
  /\ tasks' = IF StartsTask(enqueue, is_async, loop) THEN <<NewTask>> ELSE <<>>
  /\ log_task' = IF StartsTask(enqueue, is_async, loop) THEN 1 ELSE 0
  /\ UNCHANGED <<loop, enqueue, is_async, level, handlers, queue, async_queue, w_rec, w_idx,
                 mainAlive, c_pc, callerLocals, ncall, nrec, nedit, hist>>

\* Mutant: a caller has to wait while the worker thread is inside a handler.
ReadyMut(c) == phase = "ready" /\ c_pc[c] = "idle" /\ w_pc # "handling"

\* Caller c is free to call a method of the constructed Logger.
Ready(c) == phase = "ready" /\ c_pc[c] = "idle"
SyncMode == ~enqueue /\ ~is_async

\* ------------------------------------------------------------ handler list
\* First position of hs holding a handler of the set S, 0 if none.
FirstIndex(hs, S) ==
  IF \E k \in 1..Len(hs) : hs[k] \in S
  THEN CHOOSE k \in 1..Len(hs) : hs[k] \in S /\ \A j \in 1..(k - 1) : hs[j] \notin S
  ELSE 0

\* del hs[k], k counted from 1.
RemoveAt(hs, k) == [j \in 1..(Len(hs) - 1) |-> IF j < k THEN hs[j] ELSE hs[j + 1]]

\* A Python index i into a list of length n, as a position counted from 1; 0 if out of range.
PyIndex(i, n) ==
  IF 0 <= i /\ i < n THEN i + 1
  ELSE IF i < 0 /\ 0 - n <= i THEN n + i + 1
  ELSE 0

\* Logger.removeHandler: ValueError('Handler "..." does not exist'), and the
\* ValueError of list.remove for a handler that is not in the list.
NotFoundError == "ValueError: not found"

Selectors ==
  [kind : {"Handler"}, h : Handlers] \cup [kind : {"int"}, i : Indexes]
    \cup [kind : {"str"}, n : Names] \cup {[kind |-> "other"]}

\* Mutant: a name that matches no handler is ignored.
RemoveOutcomeMut(hs, sel) ==
  IF sel.kind = "Handler" THEN
    LET k == FirstIndex(hs, {sel.h}) IN
    IF k = 0 THEN [hs |-> hs, err |-> NotFoundError]
    ELSE [hs |-> RemoveAt(hs, k), err |-> "none"]
  ELSE IF sel.kind = "int" THEN
    LET k == PyIndex(sel.i, Len(hs)) IN
    IF k = 0 THEN [hs |-> hs, err |-> "IndexError"]
    ELSE [hs |-> RemoveAt(hs, k), err |-> "none"]
  ELSE IF sel.kind = "str" THEN
    LET k == FirstIndex(hs, {h \in Handlers : HName(h) = sel.n}) IN
    IF k = 0 THEN [hs |-> hs, err |-> "none"]
    ELSE [hs |-> RemoveAt(hs, k), err |-> "none"]
  ELSE [hs |-> hs, err |-> "TypeError"]

\* Logger.removeHandler up to its last line: the list it leaves and the error it raises.
RemoveOutcome(hs, sel) ==
  IF sel.kind = "Handler" THEN
    LET k == FirstIndex(hs, {sel.h}) IN
    IF k = 0 THEN [hs |-> hs, err |-> NotFoundError]
    ELSE [hs |-> RemoveAt(hs, k), err |-> "none"]
  ELSE IF sel.kind = "int" THEN
    LET k == PyIndex(sel.i, Len(hs)) IN
    IF k = 0 THEN [hs |-> hs, err |-> "IndexError"]
    ELSE [hs |-> RemoveAt(hs, k), err |-> "none"]
  ELSE IF sel.kind = "str" THEN
    LET k == FirstIndex(hs, {h \in Handlers : HName(h) = sel.n}) IN
    IF k = 0 THEN [hs |-> hs, err |-> NotFoundError]
    ELSE [hs |-> RemoveAt(hs, k), err |-> "none"]
  ELSE [hs |-> hs, err |-> "TypeError"]

\* The handler list is not mutated while a synchronous log call iterates it
\* (the single-writer assumption of the synchronous mode); the queueing modes
\* put no such restriction on the callers.
MayMutate(c) ==
  /\ Ready(c)
  /\ SyncMode => \A d \in Callers : c_pc[d] # "logging"
  /\ is_async => c = "main"

\* Logger.addHandler
AddHandler(c, h) ==
  /\ MayMutate(c)
  /\ Len(handlers) < MaxHandlers /\ nedit < MaxEdits
  /\ nedit' = nedit + 1
  /\ handlers' = Append(handlers, h)
  /\ handlers_num' = CachedCount(handlers')
  /\ result' = "ok"
  /\ UNCHANGED <<phase, loop, enqueue, is_async, level, hasQueue, queue, hasAsyncQueue,
                 async_queue, thread, tasks, log_task, mainAlive, c_pc, callerLocals,
                 ncall, nrec, accepted, delivered, closedMark>>

\* Logger.removeHandler
RemoveHandler(c, sel) ==
  /\ MayMutate(c)
  /\ LET out == RemoveOutcome(handlers, sel) IN
       /\ out.err = "none" => nedit < MaxEdits
       /\ nedit' = IF out.err = "none" THEN nedit + 1 ELSE nedit
       /\ handlers' = out.hs
       /\ handlers_num' = IF out.err = "none" THEN CachedCount(out.hs) ELSE handlers_num
       /\ result' = IF out.err = "none" THEN "ok" ELSE out.err
  /\ UNCHANGED <<phase, loop, enqueue, is_async, level, hasQueue, queue, hasAsyncQueue,
                 async_queue, thread, tasks, log_task, mainAlive, c_pc, callerLocals,
                 ncall, nrec, accepted, delivered, closedMark>>

\* Logger.setLevelThreshold, first statement: a raw number becomes
\* LogLevel("CUSTOM", number); a LogLevel object is taken as it is.
Wrap(t) == IF t.kind = "number" THEN [name |-> "CUSTOM", level |-> t.n] ELSE t.lv

\* Mutant: the name selects the last handler of that name.
SetTargetMut(hs, sel) ==
  IF sel.kind = "int" THEN
    LET k == PyIndex(sel.i, Len(hs)) IN
    IF k = 0 THEN [k |-> 0, err |-> "IndexError"] ELSE [k |-> k, err |-> "none"]
  ELSE IF sel.kind = "str" THEN
    LET S == {j \in 1..Len(hs) : HName(hs[j]) = sel.n} IN
    IF S = {} THEN [k |-> 0, err |-> NotFoundError]
    ELSE [k |-> CHOOSE j \in S : \A i \in S : i <= j, err |-> "none"]
  ELSE [k |-> 0, err |-> "TypeError"]

\* Logger.setLevelThreshold: the position of the handler the selector picks, or the
\* error raised: self.handlers[i] for an int, the first handler of that name for a
\* str, TypeError for anything else.
SetTarget(hs, sel) ==
  IF sel.kind = "int" THEN
    LET k == PyIndex(sel.i, Len(hs)) IN
    IF k = 0 THEN [k |-> 0, err |-> "IndexError"] ELSE [k |-> k, err |-> "none"]
  ELSE IF sel.kind = "str" THEN
    LET k == FirstIndex(hs, {h \in Handlers : HName(h) = sel.n}) IN
    IF k = 0 THEN [k |-> 0, err |-> NotFoundError] ELSE [k |-> k, err |-> "none"]
  ELSE [k |-> 0, err |-> "TypeError"]

\* Logger.setLevelThreshold
SetLevelThreshold(c, sel, t) ==
  /\ MayMutate(c)
  /\ LET out == SetTarget(handlers, sel) IN
       /\ out.err = "none" => nedit < MaxEdits
       /\ nedit' = IF out.err = "none" THEN nedit + 1 ELSE nedit
       /\ level' = IF out.err = "none" THEN [level EXCEPT ![handlers[out.k]] = Wrap(t)]
                   ELSE level
       /\ handlers_num' = IF out.err = "none" THEN CachedCount(handlers) ELSE handlers_num
       /\ result' = IF out.err = "none" THEN "ok" ELSE out.err
  /\ UNCHANGED <<phase, loop, enqueue, is_async, handlers, hasQueue, queue, hasAsyncQueue,
                 async_queue, thread, tasks, log_task, mainAlive, c_pc, callerLocals,
                 ncall, nrec, accepted, delivered, closedMark>>

\* ------------------------------------------------------------------ records
\* Logger.__makeRecord: a new LogRecord, the (nrec + 1)-th built, for call number `call`.
MakeRecord(call) == [call |-> call, rid |-> nrec + 1]

\* One handler.handle(record) invocation on thread `by`.
Handled(h, rec, by) == [h |-> h, rec |-> rec, by |-> by]

\* ---------------------------------------------------------------------- log
\* Logger.__log: ValueError("Logger needs at lease one handler").
NoHandlerError == "ValueError: no handler"

\* Mutant: the no-handler test never fires.
NoHandlersMut(n) == n < 0

\* Logger.__log, first statement: the no-handler test on the cached count.
NoHandlers(n) == n = 0

\* LogQueue.put / asyncio.Queue.put_nowait: the record joins the tail.
Put(q, rec) == Append(q, rec)

\* Logger.__log, reached from log, trace, debug, info, warning, error, fatal and
\* exception. In the synchronous mode the call goes on in SyncHandle.
Log(c) ==
  /\ Ready(c)
  /\ is_async => c = "main"
  /\ ncall < MaxCalls
  /\ ncall' = ncall + 1
  /\ IF NoHandlers(handlers_num) THEN
       /\ result' = NoHandlerError
       /\ UNCHANGED <<queue, async_queue, nrec, accepted, c_pc, c_idx, c_call>>
     ELSE IF enqueue THEN
       /\ queue' = Put(queue, MakeRecord(ncall + 1))
       /\ nrec' = nrec + 1
       /\ accepted' = Append(accepted, MakeRecord(ncall + 1))
       /\ result' = "ok"
       /\ UNCHANGED <<async_queue, c_pc, c_idx, c_call>>
     ELSE IF is_async THEN
       /\ async_queue' = Put(async_queue, MakeRecord(ncall + 1))
       /\ nrec' = nrec + 1
       /\ accepted' = Append(accepted, MakeRecord(ncall + 1))
       /\ result' = "ok"
       /\ UNCHANGED <<queue, c_pc, c_idx, c_call>>
     ELSE
       /\ c_pc' = [c_pc EXCEPT ![c] = "logging"]
       /\ c_idx' = [c_idx EXCEPT ![c] = 1]
       /\ c_call' = [c_call EXCEPT ![c] = ncall + 1]
       /\ UNCHANGED <<queue, async_queue, nrec, accepted, result>>
  /\ UNCHANGED <<phase, loop, enqueue, is_async, level, handlers, handlers_num, hasQueue,
                 hasAsyncQueue, thread, tasks, log_task, mainAlive, c_task, c_mark,
                 nedit, delivered, closedMark>>

\* Mutant: the list is walked from its end.
IterItemMut(hs, i) == hs[Len(hs) - i + 1]

\* The handler a list iterator at position i yields.
IterItem(hs, i) == hs[i]

\* Logger.__log, synchronous branch: one turn of `for handler in self.handlers`,
\* each turn building its own record; a raising handler ends the call.
SyncHandle(c, ok) ==
  /\ phase = "ready" /\ c_pc[c] = "logging"
  /\ c_idx[c] <= Len(handlers)
  /\ delivered' = Append(delivered,
         Handled(IterItem(handlers, c_idx[c]), MakeRecord(c_call[c]), c))
  /\ nrec' = nrec + 1
  /\ IF ok THEN
       /\ c_idx' = [c_idx EXCEPT ![c] = c_idx[c] + 1]
       /\ UNCHANGED <<c_pc, c_call, result>>
     ELSE
       /\ c_pc' = [c_pc EXCEPT ![c] = "idle"]
       /\ c_idx' = [c_idx EXCEPT ![c] = 0]
       /\ c_call' = [c_call EXCEPT ![c] = 0]
       /\ result' = "HandlerError"
  /\ UNCHANGED <<phase, loop, enqueue, is_async, level, handlers, handlers_num, hasQueue,
                 queue, hasAsyncQueue, async_queue, thread, tasks, log_task, mainAlive,
                 c_task, c_mark, ncall, nedit, accepted, closedMark>>

\* Logger.__log, synchronous branch: the iterator is exhausted and the call returns.
SyncLogReturn(c) ==
  /\ phase = "ready" /\ c_pc[c] = "logging"
  /\ c_idx[c] > Len(handlers)
  /\ c_pc' = [c_pc EXCEPT ![c] = "idle"]
  /\ c_idx' = [c_idx EXCEPT ![c] = 0]
  /\ c_call' = [c_call EXCEPT ![c] = 0]
  /\ result' = "ok"
  /\ UNCHANGED <<phase, loop, enqueue, is_async, level, handlers, handlers_num, hasQueue,
                 queue, hasAsyncQueue, async_queue, thread, tasks, log_task, mainAlive,
                 c_task, c_mark, ncall, nrec, nedit, accepted, delivered, closedMark>>

\* ------------------------------------------------- thread-backed dispatch
\* LogQueue.get: the head of the queue and the rest.
Get(q) == [rec |-> Head(q), rest |-> Tail(q)]

\* Logger.__enqueueHandler: queue.get returned a record; the for loop starts.
WorkerGet ==
  /\ w_pc = "get" /\ queue # <<>>
  /\ w_rec' = Get(queue).rec
  /\ queue' = Get(queue).rest
  /\ w_idx' = 1
  /\ w_pc' = "dispatch"
  /\ UNCHANGED <<phase, loop, enqueue, is_async, level, handlers, handlers_num, hasQueue,
                 hasAsyncQueue, async_queue, tasks, log_task, mainAlive, c_pc,
                 callerLocals, ncall, nrec, nedit, hist, result>>

\* Logger.__enqueueHandler: queue.get timed out on an empty queue
\* (LogQueueEmptyException is caught).
WorkerTimeout ==
  /\ w_pc = "get" /\ queue = <<>>
  /\ w_pc' = "check"
  /\ UNCHANGED <<phase, loop, enqueue, is_async, level, handlers, handlers_num, hasQueue,
                 queue, hasAsyncQueue, async_queue, w_rec, w_idx, tasks, log_task,
                 mainAlive, c_pc, callerLocals, ncall, nrec, nedit, hist, result>>

\* Logger.__enqueueHandler, except branch: where the worker goes after a timeout.
AfterTimeout(alive) == IF alive THEN "get" ELSE "exited"

WorkerCheckAlive ==
  /\ w_pc = "check"
  /\ w_pc' = AfterTimeout(mainAlive)
  /\ UNCHANGED <<phase, loop, enqueue, is_async, level, handlers, handlers_num, hasQueue,
                 queue, hasAsyncQueue, async_queue, w_rec, w_idx, tasks, log_task,
                 mainAlive, c_pc, callerLocals, ncall, nrec, nedit, hist, result>>

\* Logger.__enqueueHandler: what an exception raised by handler.handle does to the
\* worker. Only LogQueueEmptyException is caught, so it ends the thread.
AfterHandlerError == "crashed"

\* Logger.__enqueueHandler: one turn of `for handler in self.handlers` on the
\* worker thread; the iterator reads the live list. handler.handle(record) is
\* entered here and returns or raises in WorkerReturn.
WorkerCall ==
  /\ w_pc = "dispatch"
  /\ w_idx <= Len(handlers)
  /\ delivered' = Append(delivered,
         Handled(IterItem(handlers, w_idx), w_rec, "worker"))
  /\ w_pc' = "handling"
  /\ UNCHANGED <<phase, loop, enqueue, is_async, level, handlers, handlers_num, hasQueue,
                 queue, hasAsyncQueue, async_queue, w_rec, w_idx, tasks, log_task,
                 mainAlive, c_pc, callerLocals, ncall, nrec, nedit, accepted, closedMark,
                 result>>

\* Logger.__enqueueHandler: handler.handle(record) returns (ok) or raises.
WorkerReturn(ok) ==
  /\ w_pc = "handling"
  /\ IF ok THEN w_pc' = "dispatch" /\ w_idx' = w_idx + 1 /\ UNCHANGED w_rec
     ELSE w_pc' = AfterHandlerError /\ w_idx' = 0 /\ w_rec' = NoRec
  /\ UNCHANGED <<phase, loop, enqueue, is_async, level, handlers, handlers_num, hasQueue,
                 queue, hasAsyncQueue, async_queue, tasks, log_task, mainAlive, c_pc,
                 callerLocals, ncall, nrec, nedit, hist, result>>

\* Logger.__enqueueHandler: the iterator is exhausted; back to queue.get.
WorkerLoopEnd ==
  /\ w_pc = "dispatch"
  /\ w_idx > Len(handlers)
  /\ w_pc' = "get" /\ w_idx' = 0 /\ w_rec' = NoRec
  /\ UNCHANGED <<phase, loop, enqueue, is_async, level, handlers, handlers_num, hasQueue,
                 queue, hasAsyncQueue, async_queue, tasks, log_task, mainAlive, c_pc,
                 callerLocals, ncall, nrec, nedit, hist, result>>

WorkerStep ==
  \/ WorkerGet \/ WorkerTimeout \/ WorkerCheckAlive \/ WorkerLoopEnd
  \/ WorkerCall
  \/ \E ok \in BOOLEAN : WorkerReturn(ok)

\* Thread.is_alive() of self.log_thread.
ThreadAlive == w_pc \in {"get", "check", "dispatch", "handling"}

\* The main thread ends while other threads go on (threading.main_thread().is_alive()
\* turns False); it matters to the worker only.
MainExit ==
  /\ phase = "ready" /\ enqueue
  /\ c_pc["main"] = "idle"
  /\ mainAlive' = FALSE
  /\ c_pc' = [c_pc EXCEPT !["main"] = "exited"]
  /\ UNCHANGED <<phase, loop, enqueue, is_async, level, handlers, handlers_num, hasQueue,
                 queue, hasAsyncQueue, async_queue, thread, tasks, log_task,
                 callerLocals, ncall, nrec, nedit, hist, result>>

\* Logger.close, enqueue branch: self.log_thread.join() returns once the thread is dead.
CloseReturn(c) ==
  /\ phase = "ready" /\ c_pc[c] = "closing"
  /\ ~ThreadAlive
  /\ c_pc' = [c_pc EXCEPT ![c] = "idle"]
  /\ closedMark' = Max(closedMark, c_mark[c])
  /\ c_mark' = [c_mark EXCEPT ![c] = 0]
  /\ result' = "ok"
  /\ UNCHANGED <<phase, loop, enqueue, is_async, level, handlers, handlers_num, hasQueue,
                 queue, hasAsyncQueue, async_queue, thread, tasks, log_task, mainAlive,
                 c_idx, c_call, c_task, ncall, nrec, nedit, accepted, delivered>>

\* --------------------------------------------------- loop-backed dispatch
Finished(t) == t.pc \in {"done", "cancelled", "failed"}

LoopTurns == loop \in {"running", "ruc"}

\* Task.cancel(): a request, taken at the task's next step; no effect on a finished task.
Cancel(t) == IF Finished(t) THEN t ELSE [t EXCEPT !.cancel = TRUE]

\* Logger.start_async_logging
StartAsyncLogging(c) ==
  /\ Ready(c) /\ c = "main"
  /\ IF ~is_async THEN
       /\ result' = "ok"
       /\ UNCHANGED <<tasks, log_task>>
     ELSE IF loop = "closed" THEN
       /\ result' = "RuntimeError"
       /\ UNCHANGED <<tasks, log_task>>
     ELSE
       /\ Len(tasks) < MaxTasks
       /\ tasks' = Append(tasks, NewTask)
       /\ log_task' = Len(tasks) + 1
       /\ result' = "ok"
  /\ UNCHANGED <<phase, loop, enqueue, is_async, level, handlers, handlers_num, hasQueue,
                 queue, hasAsyncQueue, async_queue, thread, mainAlive, c_pc,
                 callerLocals, ncall, nrec, nedit, hist>>

\* Mutant: only RuntimeError is swallowed.
SurfacedMut(exc) == IF exc = "RuntimeError" THEN "ok" ELSE exc

\* Logger.stop_async_logging, the except clauses around run_until_complete:
\* what the caller sees of an exception raised there.
Surfaced(exc) == IF exc \in {"CancelledError", "RuntimeError"} THEN "ok" ELSE exc

\* Logger.stop_async_logging up to run_until_complete.
\* On a loop that is running or closed, run_until_complete raises RuntimeError at once;
\* on a stopped loop it turns the loop until the task is finished (RucReturn).
StopBody(c) ==
  IF ~is_async \/ log_task = 0 THEN
    /\ result' = "ok"
    /\ UNCHANGED <<tasks, log_task, loop, c_pc, c_task>>
  ELSE
    /\ tasks' = [tasks EXCEPT ![log_task] = Cancel(tasks[log_task])]
    /\ IF loop = "stopped" THEN
         /\ loop' = "ruc"
         /\ c_pc' = [c_pc EXCEPT ![c] = "ruc"]
         /\ c_task' = [c_task EXCEPT ![c] = log_task]
         /\ result' = "pending"
         /\ UNCHANGED log_task
       ELSE
         /\ result' = Surfaced("RuntimeError")
         /\ log_task' = IF Surfaced("RuntimeError") = "ok" THEN 0 ELSE log_task
         /\ UNCHANGED <<loop, c_pc, c_task>>

StopAsyncLogging(c) ==
  /\ Ready(c) /\ c = "main"
  /\ StopBody(c)
  /\ UNCHANGED <<phase, enqueue, is_async, level, handlers, handlers_num, hasQueue, queue,
                 hasAsyncQueue, async_queue, thread, mainAlive, c_idx, c_call, c_mark,
                 ncall, nrec, nedit, hist>>

\* The exception run_until_complete(task) raises for a finished task, "none" if it returns.
TaskException(t) ==
  IF t.pc = "cancelled" THEN "CancelledError"
  ELSE IF t.pc = "failed" THEN "HandlerError"
  ELSE "none"

\* Logger.stop_async_logging: run_until_complete returns or raises; the last line
\* (self.log_task = None) runs unless the exception escapes.
RucReturn(c) ==
  /\ phase = "ready" /\ c_pc[c] = "ruc"
  /\ Finished(tasks[c_task[c]])
  /\ loop' = "stopped"
  /\ c_pc' = [c_pc EXCEPT ![c] = "idle"]
  /\ c_task' = [c_task EXCEPT ![c] = 0]
  /\ LET exc == TaskException(tasks[c_task[c]])
         out == IF exc = "none" THEN "ok" ELSE Surfaced(exc) IN
       /\ result' = out
       /\ log_task' = IF out = "ok" THEN 0 ELSE log_task
  /\ UNCHANGED <<phase, enqueue, is_async, level, handlers, handlers_num, hasQueue, queue,
                 hasAsyncQueue, async_queue, thread, tasks, mainAlive, c_idx, c_call,
                 c_mark, ncall, nrec, nedit, hist>>

\* Logger.close
Close(c) ==
  /\ Ready(c)
  /\ is_async => c = "main"
  /\ IF enqueue THEN
       /\ c_pc' = [c_pc EXCEPT ![c] = "closing"]
       /\ c_mark' = [c_mark EXCEPT ![c] = Len(accepted)]
       /\ result' = "pending"
       /\ UNCHANGED <<tasks, log_task, loop, c_task>>
     ELSE
       /\ StopBody(c)
       /\ UNCHANGED c_mark
  /\ UNCHANGED <<phase, enqueue, is_async, level, handlers, handlers_num, hasQueue, queue,
                 hasAsyncQueue, async_queue, thread, mainAlive, c_idx, c_call,
                 ncall, nrec, nedit, hist>>

taskFrame == <<phase, loop, enqueue, is_async, level, handlers, handlers_num, hasQueue, queue,
               hasAsyncQueue, thread, log_task, mainAlive, c_pc, callerLocals, ncall,
               nrec, nedit, accepted, closedMark, result>>

\* Logger.__async_enqueueHandler: the task's first step. A task cancelled before it
\* ever ran ends cancelled without entering the coroutine.
TaskStart(i) ==
  /\ LoopTurns /\ tasks[i].pc = "new"
  /\ tasks' = [tasks EXCEPT ![i].pc = IF tasks[i].cancel THEN "cancelled" ELSE "wait"]
  /\ UNCHANGED <<taskFrame, async_queue, delivered>>

\* Logger.__async_enqueueHandler: what CancelledError, raised at the await the task
\* is suspended on, does to the task (`except asyncio.CancelledError: break`).
AfterCancel == "done"

TaskCancelled(i) ==
  /\ LoopTurns /\ tasks[i].pc \in {"wait", "offload"} /\ tasks[i].cancel
  /\ tasks' = [tasks EXCEPT ![i] = [pc |-> AfterCancel, cancel |-> TRUE, rec |-> NoRec, idx |-> 0]]
  /\ UNCHANGED <<taskFrame, async_queue, delivered>>

\* Logger.__async_enqueueHandler: wait_for timed out on an empty queue
\* (`except asyncio.TimeoutError: continue`).
TaskTimeout(i) ==
  /\ LoopTurns /\ tasks[i].pc = "wait" /\ ~tasks[i].cancel
  /\ async_queue = <<>>
  /\ UNCHANGED vars

\* Logger.__async_enqueueHandler: the for loop reaches position k of the live handler
\* list for record rec: the handler call is handed to a pool thread and awaited, or,
\* past the end of the list, task_done() is called and the task waits on the queue again.
TaskDispatch(i, rec, k) ==
  IF k <= Len(handlers) THEN
    /\ delivered' = Append(delivered, Handled(IterItem(handlers, k), rec, "pool"))
    /\ tasks' = [tasks EXCEPT ![i] = [pc |-> "offload", cancel |-> FALSE, rec |-> rec,
                                      idx |-> k]]
  ELSE
    /\ tasks' = [tasks EXCEPT ![i] = [pc |-> "wait", cancel |-> FALSE, rec |-> NoRec,
                                      idx |-> 0]]
    /\ UNCHANGED delivered

\* Logger.__async_enqueueHandler: wait_for(self.async_queue.get()) returned a record.
TaskGet(i) ==
  /\ LoopTurns /\ tasks[i].pc = "wait" /\ ~tasks[i].cancel
  /\ async_queue # <<>>
  /\ async_queue' = Get(async_queue).rest
  /\ TaskDispatch(i, Get(async_queue).rec, 1)
  /\ UNCHANGED taskFrame

\* Logger.__async_enqueueHandler: await asyncio.to_thread(handler.handle, record)
\* completes (ok) or raises; an exception of the handler leaves the coroutine and
\* ends the task.
TaskResume(i, ok) ==
  /\ LoopTurns /\ tasks[i].pc = "offload" /\ ~tasks[i].cancel
  /\ IF ok THEN TaskDispatch(i, tasks[i].rec, tasks[i].idx + 1)
     ELSE /\ tasks' = [tasks EXCEPT ![i] = [pc |-> "failed", cancel |-> FALSE,
                                            rec |-> NoRec, idx |-> 0]]
          /\ UNCHANGED delivered
  /\ UNCHANGED <<taskFrame, async_queue>>

\* One step of task i, run by the event loop.
TaskRun(i) ==
  /\ i <= Len(tasks)
  /\ \/ TaskStart(i) \/ TaskCancelled(i) \/ TaskTimeout(i) \/ TaskGet(i)
     \/ \E ok \in BOOLEAN : TaskResume(i, ok)

TaskStep == \E i \in 1..MaxTasks : TaskRun(i)

loopFrame == <<phase, enqueue, is_async, level, handlers, handlers_num, hasQueue, queue,
               hasAsyncQueue, async_queue, thread, tasks, log_task, mainAlive, c_pc,
               callerLocals, ncall, nrec, nedit, hist, result>>

\* The application's event loop stops turning (run_forever / run_until_complete returned).
LoopStop ==
  /\ phase = "ready" /\ is_async /\ loop = "running" /\ c_pc["main"] = "idle"
  /\ loop' = "stopped"
  /\ UNCHANGED loopFrame

\* The application runs the stopped loop again.
LoopRun ==
  /\ phase = "ready" /\ is_async /\ loop = "stopped" /\ c_pc["main"] = "idle"
  /\ loop' = "running"
  /\ UNCHANGED loopFrame

\* loop.close()
LoopClose ==
  /\ phase = "ready" /\ is_async /\ loop = "stopped" /\ c_pc["main"] = "idle"
  /\ loop' = "closed"
  /\ UNCHANGED loopFrame

\* ------------------------------------------------------------ specification
\* The calls every mode accepts: Logger(...), the log methods, the handler list.
Shared ==
  \/ Construct
  \/ \E c \in Callers :
       \/ Log(c)
       \/ \E h \in Handlers : AddHandler(c, h)
       \/ \E sel \in Selectors : RemoveHandler(c, sel)
       \/ \E sel \in Selectors, t \in Thresholds : SetLevelThreshold(c, sel, t)

SyncOnly ==
  \E c \in Callers : SyncLogReturn(c) \/ \E ok \in BOOLEAN : SyncHandle(c, ok)

ThreadOnly ==
  \/ \E c \in Callers : Close(c) \/ CloseReturn(c)
  \/ WorkerStep
  \/ MainExit

AsyncOnly ==
  \/ \E c \in Callers :
       Close(c) \/ StartAsyncLogging(c) \/ StopAsyncLogging(c) \/ RucReturn(c)
  \/ TaskStep
  \/ LoopStop \/ LoopRun \/ LoopClose

NextSync == Shared \/ SyncOnly
NextThread == Shared \/ ThreadOnly
NextAsync == Shared \/ AsyncOnly

Next == Shared \/ SyncOnly \/ ThreadOnly \/ AsyncOnly

\* Every combination of constructor arguments.
Spec == Init /\ [][Next]_vars

\* Logger(name, handlers): the synchronous mode.
InitSync == Init /\ enqueue = FALSE /\ is_async = FALSE
SpecSync == InitSync /\ [][NextSync]_vars

\* Logger(name, handlers, enqueue=True): the thread-backed mode.
InitThread == Init /\ enqueue = TRUE /\ is_async = FALSE
SpecThread == InitThread /\ [][NextThread]_vars

\* Logger(name, handlers, is_async=True): the loop-backed mode.
InitAsync == Init /\ enqueue = FALSE /\ is_async = TRUE
SpecAsync == InitAsync /\ [][NextAsync]_vars

\* Construction alone, over every handler list and every state of the event loop.
InitCtor == InitWith(HandlerLists, {"none", "running", "stopped", "closed"})
SpecCtor == InitCtor /\ [][Construct]_vars

\* Construction followed by handler management alone: addHandler, removeHandler and
\* setLevelThreshold calls, one after the other, in any mode.
Manage ==
  \/ Construct
  \/ \E c \in Callers :
       \/ \E h \in Handlers : AddHandler(c, h)
       \/ \E sel \in Selectors : RemoveHandler(c, sel)
       \/ \E sel \in Selectors, t \in Thresholds : SetLevelThreshold(c, sel, t)
SpecManage == Init /\ [][Manage]_vars

\* The worker thread, the event loop's tasks and a returning join or
\* run_until_complete are scheduled by the interpreter: each takes its step if it
\* stays possible. The callers are under no such obligation.
FairThread ==
  /\ SpecThread
  /\ WF_vars(WorkerStep)
  /\ \A c \in Callers : WF_vars(CloseReturn(c))

FairAsync ==
  /\ SpecAsync
  /\ \A i \in 1..MaxTasks : WF_vars(TaskRun(i))
  /\ \A c \in Callers : WF_vars(RucReturn(c))

\* ================================================================== claims

\* The records passed to handler h, in the order of the calls.
PassedTo(h) ==
  LET ds == SelectSeq(delivered, LAMBDA d : d.h = h) IN [i \in 1..Len(ds) |-> ds[i].rec]

\* The handler.handle invocations of ds made for log call number k, in order.
CallsIn(ds, k) == SelectSeq(ds, LAMBDA d : d.rec.call = k)
CallsFor(k) == CallsIn(delivered, k)

\* Record r has been passed to some handler.
Passed(r) == \E i \in 1..Len(delivered) : delivered[i].rec = r

\* C1: thread-backed mode: in every state where a close() has returned, each record
\* logged before that close() was called has been passed to every handler exactly
\* once, and every handler got those records in the order they were enqueued
\* (stated for runs in which the handler list was never changed).
C1_AllDeliveredAtClose ==
  (enqueue /\ closedMark >= 0 /\ nedit = 0) =>
    \A h \in Range(handlers) :
      SelectSeq(PassedTo(h),
                LAMBDA r : r \in Range(SubSeq(accepted, 1, closedMark)))
        = SubSeq(accepted, 1, closedMark)

\* C2: thread-backed mode: a close() called by the main thread eventually returns.
C2_MainCloseReturns == (c_pc["main"] = "closing") ~> (c_pc["main"] # "closing")

\* C3: synchronous mode: when a log call returns normally, the handle invocations
\* made for it are exactly the handlers of the list, each once, in list order, all
\* on the calling thread.
C3_SyncDispatch ==
  [][\A c \in Callers :
       (c_pc[c] = "logging" /\ c_pc'[c] = "idle" /\ result' = "ok") =>
         /\ Len(handlers) > 0
         /\ LET made == CallsIn(delivered', c_call[c]) IN
              [i \in 1..Len(made) |-> <<made[i].h, made[i].by>>]
                = [i \in 1..Len(handlers) |-> <<handlers[i], c>>]]_vars

\* A synchronous log call over two different handlers has returned normally.
C3_Witness ==
  /\ phase = "ready" /\ SyncMode /\ result = "ok"
  /\ \A c \in Callers : c_pc[c] = "idle"
  /\ \E k \in 1..ncall :
       /\ Len(CallsFor(k)) = 2
       /\ CallsFor(k)[1].h # CallsFor(k)[2].h

\* C4: in every mode, a log call made while the handler list is empty reports the
\* no-handler error, invokes no handler, enqueues no record and changes nothing of
\* the Logger: its handlers, its worker or tasks, and the caller stays free to call.
C4_NoHandlerError ==
  [][(ncall' = ncall + 1 /\ Len(handlers) = 0) =>
       /\ result' = NoHandlerError
       /\ UNCHANGED <<phase, handlers, handlers_num, queue, async_queue, accepted,
                      delivered, thread, tasks, log_task, c_pc, nrec>>]_vars

\* Call 1 reported the no-handler error and call 2, made after a handler was added,
\* was accepted.
C4_Witness ==
  /\ phase = "ready" /\ ncall >= 2
  /\ \/ Len(accepted) >= 1 /\ accepted[1].call = 2
     \/ Len(delivered) >= 1 /\ delivered[1].rec.call = 2

\* Record r is neither in a queue nor in the hands of the worker or of a task.
Drained(r) ==
  /\ r \notin Range(queue) /\ r \notin Range(async_queue)
  /\ w_rec # r
  /\ \A i \in 1..Len(tasks) : tasks[i].rec # r

\* C5: queueing modes: every record accepted by a log call has, once drained, been
\* passed to at least one handler.
C5_NeverDroppedForLackOfSink ==
  \A i \in 1..Len(accepted) : Drained(accepted[i]) => Passed(accepted[i])

\* C6: queueing modes: a raising handler does not end the drain loop, so no record
\* is left in the queue of a worker or task that a handler's exception has ended.
C6_DrainSurvivesHandlerError ==
  /\ w_pc = "crashed" => queue = <<>>
  /\ (tasks # <<>> /\ \A i \in 1..Len(tasks) : tasks[i].pc = "failed")
       => async_queue = <<>>

\* C7: loop-backed mode: every record accepted by a log call is eventually passed
\* to a handler, as long as the event loop keeps turning.
C7_EveryRecordDelivered ==
  \A k \in 1..MaxCalls :
    (k <= Len(accepted)) ~> ((k <= Len(accepted) /\ Passed(accepted[k])) \/ ~LoopTurns)

\* C8: Logger(enqueue=True, is_async=True) fails with the configuration error; no
\* queue is allocated, no worker thread started, no task scheduled.
C8_ConflictingModes ==
  [][(phase = "new" /\ enqueue /\ is_async) =>
       /\ phase' = "failed" /\ result' = "InvalidConfigurationException"
       /\ ~hasQueue' /\ ~hasAsyncQueue'
       /\ w_pc' = "none"
       /\ tasks' = <<>> /\ log_task' = 0]_vars

C8_Witness ==
  phase = "failed" /\ enqueue /\ is_async /\ result = "InvalidConfigurationException"

\* C9 as stated: Logger(is_async=True) with no running event loop fails with the
\* environment error whatever enqueue is, and creates no task.
C9_Original ==
  [][(phase = "new" /\ is_async /\ loop # "running") =>
       /\ phase' = "failed" /\ result' = "InvalidEnvironmentException"
       /\ tasks' = <<>> /\ log_task' = 0]_vars

\* C9, amended: Logger(is_async=True, enqueue=False) with no running event loop
\* fails with the environment error and creates no task.
C9_NoLoop ==
  [][(phase = "new" /\ is_async /\ ~enqueue /\ loop # "running") =>
       /\ phase' = "failed" /\ result' = "InvalidEnvironmentException"
       /\ tasks' = <<>> /\ log_task' = 0]_vars

C9_Witness ==
  /\ phase = "failed" /\ is_async /\ ~enqueue /\ loop # "running"
  /\ result = "InvalidEnvironmentException"

\* C10: loop-backed mode: close()/stop_async_logging() never raises a cancellation
\* error, and a task whose cancellation was requested finishes as long as the event
\* loop keeps turning, whether it had not started, was waiting on the queue or was
\* awaiting an offloaded handler call.
C10_StopTerminatesTask ==
  /\ [](result # "CancelledError")
  /\ \A i \in 1..MaxTasks :
       (i <= Len(tasks) /\ tasks[i].cancel) ~>
         ((i <= Len(tasks) /\ Finished(tasks[i])) \/ ~LoopTurns)

\* A stop call has returned normally and a task that was cancelled after it had
\* dispatched a record has finished.
C10_Witness ==
  /\ phase = "ready" /\ is_async /\ result = "ok" /\ log_task = 0
  /\ \E i \in 1..Len(tasks) : tasks[i].pc = "done"
  /\ \E r \in Range(accepted) : Passed(r)

\* C11: once the Logger is constructed, after any sequence of addHandler,
\* removeHandler and setLevelThreshold calls, successful or failing, the cached count
\* handlers_num equals the length of the handler list.
C11_CountConsistent == phase # "new" => handlers_num = Len(handlers)

\* A call failed after an earlier one had changed the handler set.
C11_Witness ==
  /\ phase = "ready" /\ nedit >= 1
  /\ result \in {NotFoundError, "IndexError", "TypeError"}
  /\ handlers_num = Len(handlers)

\* The positions of hs holding a handler named n.
Named(hs, n) == {k \in 1..Len(hs) : HName(hs[k]) = n}

\* C12: a removeHandler call with a name that matches no handler of the list raises
\* the not-found error and leaves the handlers, their order, their thresholds and
\* the cached count as they were.
C12_UnknownNameRemoval ==
  [][\A c \in Callers, n \in Names :
       (RemoveHandler(c, [kind |-> "str", n |-> n]) /\ Named(handlers, n) = {}) =>
         /\ result' = NotFoundError
         /\ UNCHANGED <<handlers, level, handlers_num>>]_vars

\* A removal by an unknown name has failed on a Logger that holds handlers, one of
\* them with a threshold set earlier.
C12_Witness ==
  /\ phase = "ready" /\ result = NotFoundError
  /\ Len(handlers) = 2 /\ handlers_num = 2
  /\ \E k \in 1..Len(handlers) : level[handlers[k]] # LevelINFO

\* C13: setLevelThreshold(selector, t) sets the threshold of the handler at the
\* given index, or of the first handler with the given name, to t, a raw number
\* becoming the level ("CUSTOM", number); every other handler keeps its threshold and
\* the list is unchanged. With an unknown name it raises the not-found error, with a
\* selector of another type the type error, and no threshold changes.
C13_SetsOneThreshold ==
  [][\A c \in Callers, sel \in Selectors, t \in Thresholds :
       SetLevelThreshold(c, sel, t) =>
         LET named == IF sel.kind = "str" THEN Named(handlers, sel.n) ELSE {}
             k == IF sel.kind = "int" THEN PyIndex(sel.i, Len(handlers))
                  ELSE IF named # {} THEN CHOOSE j \in named : \A i \in named : j <= i
                  ELSE 0
             new == IF t.kind = "number" THEN [name |-> "CUSTOM", level |-> t.n] ELSE t.lv
         IN /\ handlers' = handlers
            /\ IF k # 0
                 THEN /\ result' = "ok"
                      /\ level' = [h \in Handlers |->
                                     IF h = handlers[k] THEN new ELSE level[h]]
                 ELSE level' = level
            /\ (sel.kind = "str" /\ k = 0) => result' = NotFoundError
            /\ sel.kind \in {"Handler", "other"} => result' = "TypeError"]_vars

\* Of two handlers sharing a name, the first has got the wrapped raw number and the
\* second has kept its threshold.
C13_Witness ==
  /\ phase = "ready" /\ result = "ok" /\ handlers = <<"h3", "h1">>
  /\ level["h3"] = [name |-> "CUSTOM", level |-> 35]
  /\ level["h1"] = LevelINFO /\ level["h2"] = LevelINFO

\* The tasks created for the Logger that have not finished.
AliveTasks == {i \in 1..Len(tasks) : ~Finished(tasks[i])}

\* C14: loop-backed mode: at most one background drain task of the Logger is alive
\* (scheduled and not finished) in every reachable state.
C14_OneTaskAlive == Cardinality(AliveTasks) <= 1

\* C15: loop-backed mode: when close()/stop_async_logging() returns, having cleared
\* self.log_task, the task it stopped is finished, whether the call was made on a
\* running or on a stopped loop.
C15_StopWaitsForTask ==
  [][(is_async /\ loop \in {"running", "stopped", "ruc"} /\ log_task # 0 /\ log_task' = 0)
       => Finished(tasks'[log_task])]_vars

\* C16: loop-backed mode: a task that ends on a stop request made while one of its
\* offloaded handler calls was in flight has passed the record in its hands to every
\* handler of the list (stated for runs in which the handler list was never changed).
C16_NoPartialDispatchOnStop ==
  [][\A i \in 1..Len(tasks) :
       (nedit = 0 /\ tasks[i].pc = "offload" /\ tasks[i].cancel /\ Finished(tasks'[i]))
         => \A h \in Range(handlers) : tasks[i].rec \in Range(PassedTo(h))]_vars

\* C17: loop-backed mode: handlers are invoked record by record in the order the
\* records were enqueued, at most one offloaded handler call is awaited at a time,
\* and the calls made for one record follow the handler list from its start (the
\* last part stated for runs in which the handler list was never changed).
C17_OrderedDispatch ==
  is_async =>
    /\ \A i, j \in 1..Len(delivered) :
         i < j => delivered[i].rec.rid <= delivered[j].rec.rid
    /\ Cardinality({i \in 1..Len(tasks) : tasks[i].pc = "offload"}) <= 1
    /\ nedit = 0 =>
         \A k \in 1..ncall :
           /\ Len(CallsFor(k)) <= Len(handlers)
           /\ \A i \in 1..Len(CallsFor(k)) : CallsFor(k)[i].h = handlers[i]

\* C18: thread-backed mode: the worker thread ends only at the check that follows a
\* pop timed out on an empty queue, and only if the main thread is no longer alive;
\* while the main thread is alive the worker never ends.
C18_WorkerExitsOnlyAfterMain ==
  [][(ThreadAlive /\ ~ThreadAlive') => (w_pc = "check" /\ ~mainAlive)]_vars

\* C19: in every mode, the handlers invoked for one log call all receive the same
\* Record, the one built for that call.
C19_OneRecordPerCall ==
  \A i, j \in 1..Len(delivered) :
    delivered[i].rec.call = delivered[j].rec.call => delivered[i].rec = delivered[j].rec

\* C20: thread-backed mode: a log call is possible and completes in every state in
\* which its caller is free, whatever the worker thread is doing, a handler call in
\* progress included; no caller is left inside a log call, and every handler
\* invocation is made on the worker thread.
C20_ProducersNeverWait ==
  (enqueue /\ phase = "ready") =>
    /\ \A c \in Callers : c_pc[c] # "logging"
    /\ \A c \in Callers : (c_pc[c] = "idle" /\ ncall < MaxCalls) => ENABLED Log(c)
    /\ \A i \in 1..Len(delivered) : delivered[i].by = "worker"

\* The worker is inside a handler call for the first record, the second record has
\* been accepted and waits in the queue.
C20_Witness ==
  /\ enqueue /\ phase = "ready" /\ w_pc = "handling"
  /\ Len(accepted) = 2 /\ w_rec = accepted[1] /\ queue = <<accepted[2]>>
  /\ result = "ok"

====
